---- MODULE Spec2Model ----
(***************************************************************************)
(* A model of the FedBiscuit preference-data pipeline                       *)
(* (federatedscope/llm/dataloader/shp.py), of the summarization             *)
(* evaluation loop (federatedscope/llm/eval/eval_for_tldr/                  *)
(* eval_summarization.py) and of the checkpoint probing of the chat/eval    *)
(* model wrapper (federatedscope/llm/misc/fschat.py).                       *)
(*                                                                          *)
(* The data root is a directory of files; the remote corpus is what         *)
(* datasets.load_dataset("stanfordnlp/SHP") returns.  Every loader is one   *)
(* action that runs the whole function, side effects included.              *)
(***************************************************************************)
EXTENDS Integers, Sequences, FiniteSets, TLC

VARIABLES
    corpus,     \* the remote corpus: [train, validation, test], each a sequence of rows
    files,      \* the data root: file name -> [exists, data]
    ret,        \* the outcome of the operation that ran last (NoCall after an environment step)
    envsteps,   \* how many environment steps (corpus changes, file removals) were taken
    evalst,     \* the evaluation run: position, inputs, output files
    ckpts,      \* the checkpoint directory: the set of file names that exist in it
    bot,        \* the FSChatBot object: its attributes and the outcome of the last call
    procs       \* the loader processes that run step by step: position and locals

vars == <<corpus, files, ret, envsteps, evalst, ckpts, bot, procs>>

----------------------------------------------------------------------------
(* Bounds of the model *)

MaxDedupRows == 2      \* rows per split of the corpora of SpecDedup
MaxBuildRows == 2      \* training rows of the corpora of SpecBuild
MaxClients == 2        \* config.federate.client_num ranges over 1..MaxClients
MaxNumTest == 1        \* max_num_test ranges over 0..MaxNumTest
MaxEnvSteps == 2       \* environment steps (corpus changes, file removals) in one behaviour
MaxItems == 3          \* items of the evaluation test file

----------------------------------------------------------------------------
(* Sequences helpers *)

SeqsUpTo(S, n) == UNION {[1..k -> S] : k \in 0..n}

Take(s, n) == SubSeq(s, 1, IF n < Len(s) THEN n ELSE Len(s))

Range(s) == {s[i] : i \in 1..Len(s)}

----------------------------------------------------------------------------
(* Texts and the tokenizer.  A text is a name; the tokenizer (an input of   *)
(* the loaders) is given by the number of input_ids it returns for it.      *)

Histories == {"q1", "q2", "q3"}
Responses == {"b", "c"}

TokenCount(text) ==
    CASE text = "q1" -> 1
      [] text = "q2" -> 2
      [] text = "q3" -> 1
      [] text = "b" -> 255
      [] text = "c" -> 256

\* A domain of the corpus is a string such as "askculinary_train": a
\* sequence of characters here.
DomainA == <<"a", "_", "t">>
DomainB == <<"b", "_", "c", "_", "t">>
Domains == {DomainA, DomainB}

\* str.split('_')[0]: the characters before the first underscore
RECURSIVE SplitFirst(_)
SplitFirst(s) ==
    IF s = <<>> \/ Head(s) = "_" THEN <<>>
    ELSE <<Head(s)>> \o SplitFirst(Tail(s))

----------------------------------------------------------------------------
(* JSON lines.  json.dumps writes a dict as its key/value pairs in          *)
(* insertion order; a JSONL file is the sequence of its lines.              *)

JsonDumps(record, keys) == [i \in 1..Len(keys) |-> <<keys[i], record[keys[i]]>>]

JsonLoads(line) ==
    [k \in {line[i][1] : i \in 1..Len(line)} |->
        LET i == CHOOSE j \in 1..Len(line) :
                    /\ line[j][1] = k
                    /\ \A l \in (j + 1)..Len(line) : line[l][1] # k
        IN line[i][2]]

\* load_jsonl(fp, **kwargs): every line parsed and projected on the fields asked for
LoadJsonl(lines, fields) ==
    [i \in 1..Len(lines) |-> [k \in fields |-> JsonLoads(lines[i])[k]]]

CmprKeys == <<"instruction", "output_A", "output_B", "choice", "category">>
RlhfKeys == <<"instruction", "category">>

----------------------------------------------------------------------------
(* The data root *)

TokenName == "tok"     \* os.path.basename(tokenizer.name_or_path)

CmprFiles == [train |-> "shp_cmpr_train.jsonl", validation |-> "shp_cmpr_val.jsonl",
              test |-> "shp_cmpr_test.jsonl"]
RlhfFiles == [train |-> "shp_rlhf_train.jsonl", validation |-> "shp_rlhf_val.jsonl",
              test |-> "shp_rlhf_test.jsonl"]

CmpPickles(num_clients) ==
    [train |-> TokenName \o "_train_" \o ToString(num_clients) \o ".pickle",
     validation |-> TokenName \o "_val.pickle",
     test |-> TokenName \o "_test.pickle"]

ChoicePickles(num_clients) ==
    [train |-> TokenName \o "_train_choice_" \o ToString(num_clients) \o ".pickle",
     validation |-> TokenName \o "_val_choice.pickle",
     test |-> TokenName \o "_test_choice.pickle"]

Tags == {"train", "validation", "test"}

JsonlNames == {CmprFiles[t] : t \in Tags} \cup {RlhfFiles[t] : t \in Tags}
CmpPickleNames == UNION {{CmpPickles(n)[t] : t \in Tags} : n \in 1..MaxClients}
ChoicePickleNames == UNION {{ChoicePickles(n)[t] : t \in Tags} : n \in 1..MaxClients}
PickleNames == CmpPickleNames \cup ChoicePickleNames
FileNames == JsonlNames \cup PickleNames

Present(data) == [exists |-> TRUE, data |-> data]

\* os.path.exists on the train path only
TrainExists(fs, names) == fs[names.train].exists

\* os.path.exists on the three paths of a cache
AllExist(fs, names) == \A t \in Tags : fs[names[t]].exists

----------------------------------------------------------------------------
(* Record Loader: _download_shp_cmpr *)

CmprRecord(row) ==
    [instruction |-> row.history,
     output_A |-> row.human_ref_A,
     output_B |-> row.human_ref_B,
     choice |-> row.labels,
     category |-> SplitFirst(row.domain)]

CmprFetch(dataset) ==
    [t \in Tags |-> [i \in 1..Len(dataset[t]) |-> CmprRecord(dataset[t][i])]]

CmprLines(lists) ==
    [t \in Tags |-> [i \in 1..Len(lists[t]) |-> JsonDumps(lists[t][i], CmprKeys)]]

\* the lists returned and the data root afterwards
DownloadShpCmpr(fs, dataset) ==
    IF AllExist(fs, CmprFiles)
    THEN [lists |-> [t \in Tags |-> LoadJsonl(fs[CmprFiles[t]].data, Range(CmprKeys))],
          files |-> fs,
          fetched |-> FALSE]
    ELSE LET lists == CmprFetch(dataset)
             lines == CmprLines(lists)
         IN [lists |-> lists,
             files |-> [f \in FileNames |->
                          IF \E t \in Tags : f = CmprFiles[t]
                          THEN Present(lines[CHOOSE t \in Tags : f = CmprFiles[t]])
                          ELSE fs[f]],
             fetched |-> TRUE]

----------------------------------------------------------------------------
(* Deduplicator: _download_shp *)

InList(x, list) == \E i \in 1..Len(list) : list[i] = x

RlhfRecord(hist, domain) == [instruction |-> hist, category |-> SplitFirst(domain)]

\* the inner loop over one split: `instructions` is the list of instructions
\* seen so far, `out` the records kept
RECURSIVE DedupLoop(_, _, _)
DedupLoop(rows, instructions, out) ==
    IF rows = <<>> THEN [instructions |-> instructions, list |-> out]
    ELSE LET hist == Head(rows).history
             domain == Head(rows).domain
         IN IF ~InList(hist, instructions)
            THEN DedupLoop(Tail(rows), Append(instructions, hist),
                           Append(out, RlhfRecord(hist, domain)))
            ELSE DedupLoop(Tail(rows), instructions, out)

\* each split deduplicated on its own
RlhfFetchPerSplit(dataset) ==
    [t \in Tags |-> DedupLoop(dataset[t], <<>>, <<>>).list]

\* duplicates kept
RlhfFetchNoDedup(dataset) ==
    [t \in Tags |-> [i \in 1..Len(dataset[t]) |->
                        RlhfRecord(dataset[t][i].history, dataset[t][i].domain)]]

\* the outer loop over tag_fp: train, validation, test in this order, with
\* one `instructions` list for the three of them
RlhfFetch(dataset) ==
    LET tr == DedupLoop(dataset.train, <<>>, <<>>)
        va == DedupLoop(dataset.validation, tr.instructions, <<>>)
        te == DedupLoop(dataset.test, va.instructions, <<>>)
    IN [train |-> tr.list, validation |-> va.list, test |-> te.list]

RlhfLines(lists) ==
    [t \in Tags |-> [i \in 1..Len(lists[t]) |-> JsonDumps(lists[t][i], RlhfKeys)]]

DownloadShp(fs, dataset) ==
    IF AllExist(fs, RlhfFiles)
    THEN [lists |-> [t \in Tags |-> LoadJsonl(fs[RlhfFiles[t]].data, Range(RlhfKeys))],
          files |-> fs,
          fetched |-> FALSE]
    ELSE LET lists == RlhfFetch(dataset)
             lines == RlhfLines(lists)
         IN [lists |-> lists,
             files |-> [f \in FileNames |->
                          IF \E t \in Tags : f = RlhfFiles[t]
                          THEN Present(lines[CHOOSE t \in Tags : f = RlhfFiles[t]])
                          ELSE fs[f]],
             fetched |-> TRUE]

----------------------------------------------------------------------------
(* Federated Partitioner and Token-Budget Filter: shp_dataset *)

\* cat_idx_map: a dense code per category string, in first-seen order
WithCategories(list) ==
    [i \in 1..Len(list) |->
        LET first == CHOOSE j \in 1..i :
                        /\ list[j].category = list[i].category
                        /\ \A l \in 1..(j - 1) : list[l].category # list[i].category
            code == Cardinality({list[l].category : l \in 1..(first - 1)})
        IN [instruction |-> list[i].instruction,
            category |-> list[i].category,
            categories |-> code]]

\* LDASplitter(num_clients, alpha=0.3)(list): num_clients sublists that
\* partition the list.  Which sample goes where is the splitter's random
\* draw, here `assign`: instruction -> index of the sublist.
LDASplitter(list, num_clients, assign) ==
    [idx \in 0..(num_clients - 1) |->
        LET HereTest(sample) == assign[sample.instruction] = idx
        IN SelectSeq(list, HereTest)]

\* every instruction sent to client 0
InstClientMapZero(inst_split_list) ==
    LET covered == UNION {{inst_split_list[idx][i].instruction :
                              i \in 1..Len(inst_split_list[idx])} :
                            idx \in DOMAIN inst_split_list}
    IN [k \in covered |-> 0]

\* inst_client_map[sample['instruction']] = idx, the sublists scanned in
\* order, so the last sublist holding an instruction decides
InstClientMap(inst_split_list) ==
    LET covered == UNION {{inst_split_list[idx][i].instruction :
                              i \in 1..Len(inst_split_list[idx])} :
                            idx \in DOMAIN inst_split_list}
    IN [k \in covered |->
          CHOOSE idx \in DOMAIN inst_split_list :
            /\ \E i \in 1..Len(inst_split_list[idx]) :
                   inst_split_list[idx][i].instruction = k
            /\ \A later \in DOMAIN inst_split_list :
                   later > idx =>
                     \A i \in 1..Len(inst_split_list[later]) :
                        inst_split_list[later][i].instruction # k]

ClientLabel(idx) == <<"Client", idx>>      \* f"Client_{idx}"

\* inst_client_map.get(instruction, 0): no error for an unassigned instruction
LookupOrZero(inst_client_map, instruction) ==
    IF instruction \in DOMAIN inst_client_map
    THEN [found |-> TRUE, idx |-> inst_client_map[instruction]]
    ELSE [found |-> TRUE, idx |-> 0]

\* inst_client_map[instruction]: the index, or a KeyError
Lookup(inst_client_map, instruction) ==
    IF instruction \in DOMAIN inst_client_map
    THEN [found |-> TRUE, idx |-> inst_client_map[instruction]]
    ELSE [found |-> FALSE]

\* sample['domain'] = sample['category']; sample['category'] = f"Client_{...}"
Relabel(sample, inst_client_map) ==
    [instruction |-> sample.instruction,
     output_A |-> sample.output_A,
     output_B |-> sample.output_B,
     choice |-> sample.choice,
     domain |-> sample.category,
     category |-> ClientLabel(Lookup(inst_client_map, sample.instruction).idx)]

MaxTokens == 512

SumTokens(sample) ==
    TokenCount(sample.instruction) + TokenCount(sample.output_A)
        + TokenCount(sample.output_B)

WithinBudgetStrict(sample) == SumTokens(sample) < MaxTokens

WithinBudget(sample) == SumTokens(sample) <= MaxTokens

\* the three lists as shp_dataset returns them, given the relabelled
\* training list: only the training list is filtered
FilterTrain(lists) ==
    [train |-> SelectSeq(lists.train, WithinBudget),
     validation |-> lists.validation,
     test |-> lists.test]

\* shp_dataset(data_root, num_clients, tokenizer): the lists returned, or
\* the KeyError raised by the lookup of an instruction the map lacks
ShpDataset(fs, dataset, num_clients, assign) ==
    LET cmpr == DownloadShpCmpr(fs, dataset)
        rlhf == DownloadShp(cmpr.files, dataset)
        list_train_instructions == WithCategories(rlhf.lists.train)
        inst_split_list == LDASplitter(list_train_instructions, num_clients, assign)
        inst_client_map == InstClientMap(inst_split_list)
        list_train_dict == cmpr.lists.train
        missing == {i \in 1..Len(list_train_dict) :
                        ~Lookup(inst_client_map, list_train_dict[i].instruction).found}
    IN IF missing # {}
       THEN [status |-> "KeyError",
             key |-> list_train_dict[CHOOSE i \in missing :
                                        \A j \in missing : i <= j].instruction,
             files |-> rlhf.files,
             inst_split_list |-> inst_split_list]
       ELSE [status |-> "ok",
             lists |-> FilterTrain(
                         [train |-> [i \in 1..Len(list_train_dict) |->
                                        Relabel(list_train_dict[i], inst_client_map)],
                          validation |-> cmpr.lists.validation,
                          test |-> cmpr.lists.test]),
             files |-> rlhf.files,
             inst_split_list |-> inst_split_list]

----------------------------------------------------------------------------
(* Tokenized datasets.  The input_ids of an example are the encoding of    *)
(* its rendered prompt followed by its completion.                          *)

Encode(prompt, completion) == <<prompt, completion>>

\* SHP_PROMPT_DICT['shp'].format_map(sample)
PromptShp(sample) == <<"shp", sample.instruction>>

\* SHP_PROMPT_DICT['shp_cmp'].format_map(sample)
PromptShpCmp(sample) ==
    <<"shp_cmp", sample.instruction, sample.output_A, sample.output_B>>

\* LLMDataset(list_dict, tokenizer, prompt, output_tag='choice')
LLMDataset(list_dict) ==
    [input_ids |-> [i \in 1..Len(list_dict) |->
                      Encode(PromptShpCmp(list_dict[i]), list_dict[i].choice)]]

\* LLMComparisonDataset(list_dict, tokenizer, prompt, output_A, output_B,
\* choice): two parallel datasets, the preferred completion and the other
LLMComparisonDataset(list_dict) ==
    [win_dataset |->
        [input_ids |-> [i \in 1..Len(list_dict) |->
            Encode(PromptShp(list_dict[i]),
                   IF list_dict[i].choice = 0 THEN list_dict[i].output_A
                   ELSE list_dict[i].output_B)]],
     lose_dataset |->
        [input_ids |-> [i \in 1..Len(list_dict) |->
            Encode(PromptShp(list_dict[i]),
                   IF list_dict[i].choice = 0 THEN list_dict[i].output_B
                   ELSE list_dict[i].output_A)]]]

EmptyCmp == LLMComparisonDataset(<<>>)
EmptyChoice == LLMDataset(<<>>)

\* input_ids[:max_num_test], only if max_num_test > 0
ShrinkIdsOffByOne(input_ids, max_num_test) ==
    IF max_num_test > 0 THEN Take(input_ids, max_num_test + 1) ELSE input_ids

ShrinkIds(input_ids, max_num_test) ==
    IF max_num_test > 0 THEN Take(input_ids, max_num_test) ELSE input_ids

ShrinkCmp(ds, max_num_test) ==
    [win_dataset |-> [input_ids |-> ShrinkIds(ds.win_dataset.input_ids, max_num_test)],
     lose_dataset |-> [input_ids |-> ShrinkIds(ds.lose_dataset.input_ids, max_num_test)]]

ShrinkChoice(ds, max_num_test) ==
    [input_ids |-> ShrinkIds(ds.input_ids, max_num_test)]

\* the record an operation leaves in `ret`
NoCall == [fn |-> "none"]

\* what a call remembers of the operation before it: whether that was a
\* call of the same loader for the same number of clients that built the
\* cache and cut the validation and test sets it returned
CutBefore(r, fn, num_clients) ==
    /\ r.fn = fn
    /\ r.num_clients = num_clients
    /\ r.branch = "miss"
    /\ r.status = "ok"
    /\ r.max_num_test > 0

WritePickles(fs, names, datasets) ==
    [f \in FileNames |->
        IF \E t \in Tags : f = names[t]
        THEN Present(datasets[CHOOSE t \in Tags : f = names[t]])
        ELSE fs[f]]

----------------------------------------------------------------------------
(* Tokenized Dataset Cache, comparison variant: load_comparison_dataset *)

\* the pickles written only when the three of them are missing
CacheMissAll(fs, names) == \A t \in Tags : ~fs[names[t]].exists

\* the freshness test of both caches: a miss unless the three files exist
CacheMiss(fs, names) == ~AllExist(fs, names)

LoadComparisonDataset(fs, dataset, num_clients, max_num_test, assign, prev) ==
    LET names == CmpPickles(num_clients)
        call == [fn |-> "load_comparison_dataset", num_clients |-> num_clients,
                 max_num_test |-> max_num_test,
                 cut_before |-> CutBefore(prev, "load_comparison_dataset", num_clients)]
    IN IF ~CacheMiss(fs, names)
       THEN [files |-> fs,
             ret |-> call @@
                [branch |-> "hit", status |-> "ok",
                 dataset |->
                    [train |-> fs[names.train].data,
                     validation |-> ShrinkCmp(fs[names.validation].data, max_num_test),
                     test |-> ShrinkCmp(fs[names.test].data, max_num_test)]]]
       ELSE LET shp == ShpDataset(fs, dataset, num_clients, assign)
            IN IF shp.status # "ok"
               THEN [files |-> shp.files,
                     ret |-> call @@
                        [branch |-> "miss", status |-> shp.status, key |-> shp.key,
                         inst_split_list |-> shp.inst_split_list]]
               ELSE LET built == [t \in Tags |-> LLMComparisonDataset(shp.lists[t])]
                    IN [files |-> WritePickles(shp.files, names, built),
                        ret |-> call @@
                           [branch |-> "miss", status |-> "ok",
                            inst_split_list |-> shp.inst_split_list,
                            shp |-> shp.lists,
                            dataset |->
                               [train |-> built.train,
                                validation |-> ShrinkCmp(built.validation, max_num_test),
                                test |-> ShrinkCmp(built.test, max_num_test)]]]

----------------------------------------------------------------------------
(* Letter-choice shaper and its cache: load_shp_cmp_dataset_by_choice *)

OrdA == 65

\* chr(n), on the code points the model reaches
Chr(n) ==
    CASE n = 64 -> "@"
      [] n = 65 -> "A"
      [] n = 66 -> "B"
      [] n = 67 -> "C"

\* " " + chr(sample['choice'] + ord("A"))
Letter(choice) == " " \o Chr(choice + OrdA)

\* the sample with its sides exchanged and its choice flipped
Exchanged(sample) ==
    [sample EXCEPT !.output_A = sample.output_B,
                   !.output_B = sample.output_A,
                   !.choice = 1 - sample.choice]

\* the exchange done on the samples themselves, not on a deep copy
MirrorShared(list_train_dict) ==
    [i \in 1..Len(list_train_dict) |-> Exchanged(list_train_dict[i])]
        \o [i \in 1..Len(list_train_dict) |-> Exchanged(list_train_dict[i])]

\* list_train_dict + exchange_list_train_dict, the latter a deep copy
Mirror(list_train_dict) ==
    list_train_dict
        \o [i \in 1..Len(list_train_dict) |-> Exchanged(list_train_dict[i])]

LetterMap(list_dict) ==
    [i \in 1..Len(list_dict) |->
        [list_dict[i] EXCEPT !.choice = Letter(list_dict[i].choice)]]

\* the three lists handed to LLMDataset, with the training list before the
\* letter mapping
Shape(lists) ==
    [mirrored |-> Mirror(lists.train),
     train |-> LetterMap(Mirror(lists.train)),
     validation |-> LetterMap(lists.validation),
     test |-> LetterMap(lists.test)]

LoadShpCmpDatasetByChoice(fs, dataset, num_clients, max_num_test, assign, prev) ==
    LET names == ChoicePickles(num_clients)
        call == [fn |-> "load_shp_cmp_dataset_by_choice", num_clients |-> num_clients,
                 max_num_test |-> max_num_test,
                 cut_before |->
                    CutBefore(prev, "load_shp_cmp_dataset_by_choice", num_clients)]
    IN IF ~CacheMiss(fs, names)
       THEN [files |-> fs,
             ret |-> call @@
                [branch |-> "hit", status |-> "ok",
                 dataset |->
                    [train |-> fs[names.train].data,
                     validation |-> ShrinkChoice(fs[names.validation].data, max_num_test),
                     test |-> ShrinkChoice(fs[names.test].data, max_num_test)]]]
       ELSE LET shp == ShpDataset(fs, dataset, num_clients, assign)
            IN IF shp.status # "ok"
               THEN [files |-> shp.files,
                     ret |-> call @@
                        [branch |-> "miss", status |-> shp.status, key |-> shp.key,
                         inst_split_list |-> shp.inst_split_list]]
               ELSE LET shaped == Shape(shp.lists)
                        built == [t \in Tags |-> LLMDataset(shaped[t])]
                    IN [files |-> WritePickles(shp.files, names, built),
                        ret |-> call @@
                           [branch |-> "miss", status |-> "ok",
                            inst_split_list |-> shp.inst_split_list,
                            shp |-> shp.lists,
                            shaped |-> shaped,
                            dataset |->
                               [train |-> built.train,
                                validation |-> ShrinkChoice(built.validation, max_num_test),
                                test |-> ShrinkChoice(built.test, max_num_test)]]]

----------------------------------------------------------------------------
(* Corpora *)

Row(hist, ref_A, ref_B, label, domain) ==
    [history |-> hist, human_ref_A |-> ref_A, human_ref_B |-> ref_B,
     labels |-> label, domain |-> domain]

\* a post belongs to one subreddit
DomainOf(hist) == IF hist = "q1" THEN DomainA ELSE DomainB

\* SpecDedup: every corpus of up to MaxDedupRows rows per split, over two
\* posts and two domains
DedupRowSet == {Row(h, "b", "c", 0, d) : h \in {"q1", "q2"}, d \in Domains}
DedupCorpora ==
    [train : SeqsUpTo(DedupRowSet, MaxDedupRows),
     validation : SeqsUpTo(DedupRowSet, MaxDedupRows),
     test : SeqsUpTo(DedupRowSet, MaxDedupRows)]

\* SpecBuild: every training split of up to MaxBuildRows rows over two
\* posts, two pairs of responses (511 to 513 tokens with the post) and both
\* labels; validation and test of at most one row
ResponsePairs == {<<"b", "c">>, <<"b", "b">>}
BuildRowSet ==
    {Row(h, p[1], p[2], l, DomainOf(h)) : h \in {"q1", "q2"}, p \in ResponsePairs,
                                          l \in {0, 1}}
BuildValSet == {Row("q2", "b", "c", 0, DomainB), Row("q1", "c", "b", 1, DomainA)}
BuildTestSet == {Row("q2", "c", "b", 1, DomainB)}
BuildCorpora ==
    [train : SeqsUpTo(BuildRowSet, MaxBuildRows),
     validation : SeqsUpTo(BuildValSet, 1),
     test : SeqsUpTo(BuildTestSet, 1)]

\* Spec: two states of the corpus, the later one with a post in place of
\* another and with a label the earlier one lacks
CorpusEarly ==
    [train |-> <<Row("q1", "b", "c", 0, DomainA), Row("q2", "b", "c", 1, DomainB)>>,
     validation |-> <<Row("q2", "b", "c", 0, DomainB), Row("q1", "b", "b", 1, DomainA)>>,
     test |-> <<Row("q1", "b", "c", 1, DomainA), Row("q2", "b", "b", 0, DomainB)>>]
CorpusLate ==
    [train |-> <<Row("q1", "b", "c", 0, DomainA), Row("q3", "b", "b", 2, DomainB)>>,
     validation |-> <<Row("q2", "b", "c", 2, DomainB), Row("q1", "b", "b", 1, DomainA)>>,
     test |-> <<Row("q1", "b", "c", 1, DomainA), Row("q3", "b", "b", 2, DomainB)>>]
Corpora == {CorpusEarly, CorpusLate}

NumClients == 1..MaxClients
MaxNumTests == 0..MaxNumTest

\* the instructions the splitter may be handed: those of the remote corpus
\* and those of the cached deduplicated training file
KnownInstructions(fs, dataset) ==
    {dataset.train[i].history : i \in 1..Len(dataset.train)}
        \cup {JsonLoads(fs[RlhfFiles.train].data[i]).instruction :
                 i \in 1..Len(fs[RlhfFiles.train].data)}

\* the draws of the splitter; it is not called when the cache is hit
Assigns(fs, dataset, names, num_clients) ==
    IF AllExist(fs, names) THEN {[h \in {} |-> 0]}
    ELSE [KnownInstructions(fs, dataset) -> 0..(num_clients - 1)]

----------------------------------------------------------------------------
(* Operations *)

\* a path with no file: nothing to read (an empty dataset, were it unpickled)
Absent(f) ==
    [exists |-> FALSE,
     data |-> IF f \in CmpPickleNames THEN EmptyCmp
              ELSE IF f \in ChoicePickleNames THEN EmptyChoice
              ELSE <<>>]

EmptyRoot == [f \in FileNames |-> Absent(f)]

CallDownloadShpCmpr ==
    \E r \in {DownloadShpCmpr(files, corpus)} :
       /\ files' = r.files
       /\ ret' = [fn |-> "_download_shp_cmpr",
                  branch |-> IF r.fetched THEN "fetch" ELSE "cached",
                  lists |-> r.lists]
       /\ UNCHANGED <<corpus, envsteps, evalst, ckpts, bot, procs>>

CallDownloadShp ==
    \E r \in {DownloadShp(files, corpus)} :
       /\ files' = r.files
       /\ ret' = [fn |-> "_download_shp",
                  branch |-> IF r.fetched THEN "fetch" ELSE "cached",
                  lists |-> r.lists]
       /\ UNCHANGED <<corpus, envsteps, evalst, ckpts, bot, procs>>

CallLoadComparisonDataset ==
    \E num_clients \in NumClients, max_num_test \in MaxNumTests :
      \E assign \in Assigns(files, corpus, CmpPickles(num_clients), num_clients) :
        \E r \in {LoadComparisonDataset(files, corpus, num_clients, max_num_test,
                                        assign, ret)} :
           /\ files' = r.files
           /\ ret' = r.ret
           /\ UNCHANGED <<corpus, envsteps, evalst, ckpts, bot, procs>>

CallLoadShpCmpDatasetByChoice ==
    \E num_clients \in NumClients, max_num_test \in MaxNumTests :
      \E assign \in Assigns(files, corpus, ChoicePickles(num_clients), num_clients) :
        \E r \in {LoadShpCmpDatasetByChoice(files, corpus, num_clients, max_num_test,
                                            assign, ret)} :
           /\ files' = r.files
           /\ ret' = r.ret
           /\ UNCHANGED <<corpus, envsteps, evalst, ckpts, bot, procs>>

\* the build pipeline applied once to a fresh data root
BuildComparison == ret = NoCall /\ CallLoadComparisonDataset

BuildChoice == ret = NoCall /\ CallLoadShpCmpDatasetByChoice

(* Environment: the cache directory is managed by manual deletion only, and *)
(* the remote corpus may change between runs.                               *)

RemoveFile ==
    \E f \in FileNames :
        /\ envsteps < MaxEnvSteps
        /\ files[f].exists
        /\ files' = [files EXCEPT ![f] = Absent(f)]
        /\ ret' = NoCall
        /\ envsteps' = envsteps + 1
        /\ UNCHANGED <<corpus, evalst, ckpts, bot, procs>>

CorpusUpdate ==
    /\ envsteps < MaxEnvSteps
    /\ corpus' \in Corpora \ {corpus}
    /\ ret' = NoCall
    /\ envsteps' = envsteps + 1
    /\ UNCHANGED <<files, evalst, ckpts, bot, procs>>

EvalIdle == [pc |-> "idle"]

\* no FSChatBot was constructed; no loader process runs step by step
NoBot == [state |-> "none"]
NoProcs == <<>>

Init ==
    /\ corpus \in Corpora
    /\ files = EmptyRoot
    /\ ret = NoCall
    /\ envsteps = 0
    /\ evalst = EvalIdle
    /\ ckpts = {}
    /\ bot = NoBot
    /\ procs = NoProcs

Next ==
    \/ CallLoadComparisonDataset
    \/ CallLoadShpCmpDatasetByChoice
    \/ RemoveFile
    \/ CorpusUpdate

Spec == Init /\ [][Next]_vars

InitDedup ==
    /\ corpus \in DedupCorpora
    /\ files = EmptyRoot
    /\ ret = NoCall
    /\ envsteps = 0
    /\ evalst = EvalIdle
    /\ ckpts = {}
    /\ bot = NoBot
    /\ procs = NoProcs

NextDedup == CallDownloadShp

SpecDedup == InitDedup /\ [][NextDedup]_vars

InitBuild ==
    /\ corpus \in BuildCorpora
    /\ files = EmptyRoot
    /\ ret = NoCall
    /\ envsteps = 0
    /\ evalst = EvalIdle
    /\ ckpts = {}
    /\ bot = NoBot
    /\ procs = NoProcs

NextBuild ==
    \/ BuildComparison
    \/ BuildChoice

SpecBuild == InitBuild /\ [][NextBuild]_vars

----------------------------------------------------------------------------
(* Properties of the deduplicating loader (SpecDedup: the corpus is fixed)  *)

InstructionsOf(list) == {list[i].instruction : i \in 1..Len(list)}
HistoriesOf(rows) == {rows[i].history : i \in 1..Len(rows)}

FirstPos(rows, hist) ==
    CHOOSE i \in 1..Len(rows) :
        /\ rows[i].history = hist
        /\ \A j \in 1..(i - 1) : rows[j].history # hist

EarlierTags(t) ==
    CASE t = "train" -> {}
      [] t = "validation" -> {"train"}
      [] t = "test" -> {"train", "validation"}

DedupFetched == ret.fn = "_download_shp" /\ ret.branch = "fetch"

NoDuplicates(list) ==
    \A i, j \in 1..Len(list) : i # j => list[i].instruction # list[j].instruction

\* every record kept is made from the first row of its instruction in the
\* split, and the records come in the order of those rows
FollowsFirstOccurrence(list, rows) ==
    /\ InstructionsOf(list) \subseteq HistoriesOf(rows)
    /\ \A i \in 1..Len(list) :
          LET row == rows[FirstPos(rows, list[i].instruction)]
          IN list[i] = [instruction |-> row.history,
                        category |-> SplitFirst(row.domain)]
    /\ \A i, j \in 1..Len(list) :
          i < j => FirstPos(rows, list[i].instruction)
                      < FirstPos(rows, list[j].instruction)

\* the lines of the file, parsed, are the records returned, in their order
FileHolds(name, list) ==
    /\ files[name].exists
    /\ Len(files[name].data) = Len(list)
    /\ \A i \in 1..Len(list) : JsonLoads(files[name].data[i]) = list[i]

\* C3: in the fetch branch of _download_shp no split of the result holds
\* two records with the same instruction, the records follow the first
\* occurrences of their instructions in the corpus split, and each split's
\* JSONL file holds exactly the records returned for it, in the same order.
C3_DedupFetch ==
    DedupFetched =>
        \A t \in Tags :
            /\ NoDuplicates(ret.lists[t])
            /\ FollowsFirstOccurrence(ret.lists[t], corpus[t])
            /\ FileHolds(RlhfFiles[t], ret.lists[t])

\* a split of the corpus repeats an instruction, and the fetch kept one
C3_Witness ==
    /\ DedupFetched
    /\ \E t \in Tags :
          /\ Len(corpus[t]) >= 2
          /\ corpus[t][1].history = corpus[t][2].history
          /\ Len(ret.lists[t]) = 1
          /\ Len(files[RlhfFiles[t]].data) = 1

\* C4 as stated: each split is deduplicated on its own, so its output holds
\* every instruction that occurs in it, also one an earlier split holds.
C4_PerSplit ==
    DedupFetched =>
        \A t \in Tags : InstructionsOf(ret.lists[t]) = HistoriesOf(corpus[t])

\* C4, amended: the three splits are deduplicated together, in the order
\* train, validation, test: the output of a split is the first occurrence
\* of every instruction of the split that no earlier split holds, so an
\* instruction of train and validation (or test) is kept in train only.
C4_DedupAcrossSplits ==
    DedupFetched =>
        /\ \A t \in Tags :
              /\ InstructionsOf(ret.lists[t])
                    = HistoriesOf(corpus[t])
                        \ UNION {HistoriesOf(corpus[e]) : e \in EarlierTags(t)}
              /\ NoDuplicates(ret.lists[t])
              /\ FollowsFirstOccurrence(ret.lists[t], corpus[t])
        /\ \A t, u \in Tags :
              t # u => InstructionsOf(ret.lists[t]) \cap InstructionsOf(ret.lists[u]) = {}

\* an instruction of the training split occurs in a later split too, and
\* the later split's output lacks it
C4_Witness ==
    /\ DedupFetched
    /\ \E t \in {"validation", "test"} :
         \E h \in HistoriesOf(corpus.train) \cap HistoriesOf(corpus[t]) :
            /\ h \in InstructionsOf(ret.lists.train)
            /\ h \notin InstructionsOf(ret.lists[t])

----------------------------------------------------------------------------
(* Properties of the build pipeline (SpecBuild: one build on a fresh data   *)
(* root, the corpus fixed)                                                  *)

LoadFns == {"load_comparison_dataset", "load_shp_cmp_dataset_by_choice"}

BuiltOk == ret.fn \in LoadFns /\ ret.branch = "miss" /\ ret.status = "ok"

\* the record is the row's, whatever its category fields
SameSample(record, row) ==
    /\ record.instruction = row.history
    /\ record.output_A = row.human_ref_A
    /\ record.output_B = row.human_ref_B
    /\ record.choice = row.labels

\* the record is the row as the record loader made it, not relabelled
Untouched(record, row) ==
    record = [instruction |-> row.history, output_A |-> row.human_ref_A,
              output_B |-> row.human_ref_B, choice |-> row.labels,
              category |-> SplitFirst(row.domain)]

RowSum(row) ==
    TokenCount(row.history) + TokenCount(row.human_ref_A) + TokenCount(row.human_ref_B)

\* C5: every training record ends with category Client_i, 0 <= i <
\* num_clients, i the index of the splitter's sublist that holds its
\* instruction, and with domain its original category; records with the
\* same instruction get the same label; validation and test records are
\* not relabelled.
C5_ClientLabels ==
    BuiltOk =>
        /\ \A i \in 1..Len(ret.shp.train) :
              LET r == ret.shp.train[i]
              IN /\ \E idx \in 0..(ret.num_clients - 1) :
                       /\ r.category = <<"Client", idx>>
                       /\ r.instruction \in InstructionsOf(ret.inst_split_list[idx])
                 /\ \E k \in 1..Len(corpus.train) :
                       /\ SameSample(r, corpus.train[k])
                       /\ r.domain = SplitFirst(corpus.train[k].domain)
        /\ \A i, j \in 1..Len(ret.shp.train) :
              ret.shp.train[i].instruction = ret.shp.train[j].instruction
                  => ret.shp.train[i].category = ret.shp.train[j].category
        /\ \A t \in {"validation", "test"} :
              /\ Len(ret.shp[t]) = Len(corpus[t])
              /\ \A i \in 1..Len(corpus[t]) : Untouched(ret.shp[t][i], corpus[t][i])

\* two training records share an instruction and are both sent to client
\* 1 of 2, and a validation record kept its category
C5_Witness ==
    /\ BuiltOk
    /\ ret.num_clients = 2
    /\ Len(ret.shp.train) = 2
    /\ ret.shp.train[1].instruction = ret.shp.train[2].instruction
    /\ ret.shp.train[1].output_B # ret.shp.train[2].output_B
    /\ ret.shp.train[1].category = <<"Client", 1>>
    /\ ret.shp.train[2].category = <<"Client", 1>>
    /\ ret.shp.train[1].domain = <<"a">>
    /\ Len(ret.shp.validation) = 1
    /\ ret.shp.validation[1].category = <<"b">>

KeptRows(rows) == {k \in 1..Len(rows) : RowSum(rows[k]) <= 512}

\* the i-th smallest element of a set of indices
Nth(K, i) == CHOOSE k \in K : Cardinality({j \in K : j < k}) = i - 1

\* C7: the training list returned by shp_dataset is, in their order, the
\* training records whose three token counts sum to at most 512 (512 kept,
\* 513 dropped); the validation and test lists keep every record.
C7_TokenBudget ==
    BuiltOk =>
        /\ Len(ret.shp.train) = Cardinality(KeptRows(corpus.train))
        /\ \A i \in 1..Len(ret.shp.train) :
              SameSample(ret.shp.train[i], corpus.train[Nth(KeptRows(corpus.train), i)])
        /\ \A t \in {"validation", "test"} :
              /\ Len(ret.shp[t]) = Len(corpus[t])
              /\ \A i \in 1..Len(corpus[t]) : SameSample(ret.shp[t][i], corpus[t][i])

\* a training record of 513 tokens is dropped, the one of 512 after it is
\* kept, and a validation record of 513 tokens is kept
C7_Witness ==
    /\ BuiltOk
    /\ Len(corpus.train) = 2
    /\ RowSum(corpus.train[1]) = 513
    /\ RowSum(corpus.train[2]) = 512
    /\ Len(ret.shp.train) = 1
    /\ SameSample(ret.shp.train[1], corpus.train[2])
    /\ Len(ret.shp.validation) = 1
    /\ RowSum(corpus.validation[1]) = 513

ChoiceBuiltOk ==
    ret.fn = "load_shp_cmp_dataset_by_choice" /\ ret.branch = "miss" /\ ret.status = "ok"

\* C8: the shaped training list holds the n filtered records in order and
\* then their n mirrors: sides exchanged, choice flipped, instruction and
\* client label kept; the originals are as they were; the validation and
\* test lists, and the datasets cached for them, keep their length.
C8_Mirroring ==
    ChoiceBuiltOk =>
        LET n == Len(ret.shp.train)
            shaped == ret.shaped.mirrored
        IN /\ Len(shaped) = 2 * n
           /\ Len(ret.shaped.train) = 2 * n
           /\ Len(ret.dataset.train.input_ids) = 2 * n
           /\ \A i \in 1..n :
                 /\ shaped[i] = ret.shp.train[i]
                 /\ shaped[n + i].output_A = ret.shp.train[i].output_B
                 /\ shaped[n + i].output_B = ret.shp.train[i].output_A
                 /\ shaped[n + i].choice = 1 - ret.shp.train[i].choice
                 /\ shaped[n + i].instruction = ret.shp.train[i].instruction
                 /\ shaped[n + i].category = ret.shp.train[i].category
           /\ \A t \in {"validation", "test"} :
                 /\ Len(ret.shaped[t]) = Len(ret.shp[t])
                 /\ Len(files[ChoicePickles(ret.num_clients)[t]].data.input_ids)
                       = Len(ret.shp[t])

\* two filtered training records with different sides and different
\* choices were mirrored, and a validation record was not
C8_Witness ==
    /\ ChoiceBuiltOk
    /\ Len(ret.shp.train) = 2
    /\ ret.shp.train[1].choice = 0
    /\ ret.shp.train[2].choice = 1
    /\ ret.shp.train[1].output_A # ret.shp.train[1].output_B
    /\ Len(ret.shaped.mirrored) = 4
    /\ ret.shaped.mirrored[3].choice = 1
    /\ ret.shaped.mirrored[4].choice = 0
    /\ Len(ret.shp.validation) = 1
    /\ Len(ret.shaped.validation) = 1

----------------------------------------------------------------------------
(* Properties of the tokenized dataset caches (Spec)                        *)

PicklesOf(r) ==
    IF r.fn = "load_comparison_dataset" THEN CmpPickles(r.num_clients)
    ELSE ChoicePickles(r.num_clients)

\* the input_ids sequences of a dataset of the loader fn
IdsOf(fn, ds) ==
    IF fn = "load_comparison_dataset"
    THEN <<ds.win_dataset.input_ids, ds.lose_dataset.input_ids>>
    ELSE <<ds.input_ids>>

C1_Step ==
    ret'.fn \in LoadFns =>
        LET names == PicklesOf(ret')
        IN /\ ret'.branch \in {"hit", "miss"}
           /\ ret'.branch = "miss" <=> \E t \in Tags : ~files[names[t]].exists
           /\ ret'.branch = "hit" =>
                 /\ files' = files
                 /\ ret'.status = "ok"
                 /\ ret'.dataset.train = files[names.train].data
                 /\ ret'.max_num_test <= 0 =>
                       /\ ret'.dataset.validation = files[names.validation].data
                       /\ ret'.dataset.test = files[names.test].data
           /\ ret'.branch = "miss" =>
                 /\ "inst_split_list" \in DOMAIN ret'
                 /\ ret'.status = "ok" =>
                       /\ \A t \in Tags : files'[names[t]].exists
                       /\ files'[names.train].data = ret'.dataset.train
                       /\ \A f \in PickleNames \ {names[t] : t \in Tags} :
                             files'[f] = files[f]

Cut(ids, max_num_test) ==
    SubSeq(ids, 1, IF max_num_test < Len(ids) THEN max_num_test ELSE Len(ids))

C2_Step ==
    (ret'.fn \in LoadFns /\ ret'.status = "ok") =>
        LET names == PicklesOf(ret')
            m == ret'.max_num_test
        IN /\ ret'.dataset.train = files'[names.train].data
           /\ \A t \in {"validation", "test"} :
                 LET stored == IdsOf(ret'.fn, files'[names[t]].data)
                     got == IdsOf(ret'.fn, ret'.dataset[t])
                 IN /\ \A p \in DOMAIN stored :
                          /\ m > 0 => got[p] = Cut(stored[p], m)
                          /\ m <= 0 => got[p] = stored[p]
                          /\ Len(got[p]) = Len(got[1])
                          /\ ret'.branch = "miss" => Len(stored[p]) = Len(ret'.shp[t])
           /\ ret'.branch = "hit" => files' = files

\* C2: max_num_test > 0 cuts only the validation and test datasets
\* returned, each to its first max_num_test examples (win and lose alike);
\* the training dataset is returned as stored, and the cache files hold the
\* full validation and test sets whatever max_num_test built or read them,
\* so a call with max_num_test <= 0 returns them in full.
C2_TruncationInMemoryOnly == [][C2_Step]_vars

\* the cache was built by a call that cut to one example, and the next
\* call, with max_num_test <= 0, gets the two examples of the validation set
C2_Witness ==
    /\ ret.fn = "load_comparison_dataset"
    /\ ret.branch = "hit"
    /\ ret.max_num_test <= 0
    /\ ret.cut_before
    /\ Len(ret.dataset.validation.win_dataset.input_ids) = 2
    /\ Len(ret.dataset.validation.lose_dataset.input_ids) = 2

C6_Step ==
    (ret'.fn \in LoadFns /\ ret'.branch = "miss") =>
        LET train == files'[CmprFiles.train].data
            assigned == UNION {InstructionsOf(ret'.inst_split_list[idx]) :
                                 idx \in DOMAIN ret'.inst_split_list}
            unassigned == {JsonLoads(train[i]).instruction : i \in 1..Len(train)}
                             \ assigned
        IN /\ unassigned # {} <=> ret'.status = "KeyError"
           /\ ret'.status = "KeyError" =>
                 /\ ret'.key \in unassigned
                 /\ "dataset" \notin DOMAIN ret'
                 /\ \A f \in PickleNames : files'[f] = files[f]

\* C6: a build in which a training comparison record's instruction is in
\* no sublist of the splitter aborts with an error that names such an
\* instruction; no dataset is returned and no pickle is created or changed.
C6_UnassignedAborts == [][C6_Step]_vars

\* the build aborted on an instruction the cached deduplicated file lacks,
\* with pickles of earlier builds on disk
C6_Witness ==
    /\ ret.fn \in LoadFns
    /\ ret.status = "KeyError"
    /\ ret.key \in Histories
    /\ \E f \in PickleNames : files[f].exists
    /\ \E t \in Tags : ~files[PicklesOf(ret)[t]].exists

\* C9 as stated: a choice outside {0, 1} is rejected before the letter
\* mapping, so a build that completes had only choices 0 and 1 and every
\* example it shaped and cached answers " A" or " B".
C9_ChoiceValidated ==
    ChoiceBuiltOk =>
        \A t \in Tags :
            /\ \A i \in 1..Len(ret.shp[t]) : ret.shp[t][i].choice \in {0, 1}
            /\ \A i \in 1..Len(ret.shaped[t]) : ret.shaped[t][i].choice \in {" A", " B"}
            /\ LET ids == files[ChoicePickles(ret.num_clients)[t]].data.input_ids
               IN \A i \in 1..Len(ids) : ids[i][2] \in {" A", " B"}

----------------------------------------------------------------------------
(* The summarization evaluation: main of eval_summarization.py, from the    *)
(* try statement on.  The test file is read, the chatbot is built.          *)

Summaries == {"s1", "s2"}
Completions == {"g1", "g2"}

\* scorer.score(sample["summary"], sample["completion"])
Score(summary, completion) == <<"rouge", summary, completion>>

TestItem(summary) == [summary |-> summary]

EvalInputs == SeqsUpTo({TestItem(x) : x \in Summaries}, MaxItems)

\* the block written to results_display for a scored sample, and the
\* separator after it
DisplayBlock(sample) == <<"sample", sample.summary, sample.completion, sample.score>>
Separator == <<"==========================">>

\* results_display opened, the scorer and the aggregator made
EvalStart ==
    /\ evalst.pc = "idle"
    /\ \E list_data_dict \in EvalInputs :
          evalst' = [pc |-> "loop",
                     list_data_dict |-> list_data_dict,
                     left |-> 0,
                     results_display |-> <<>>,
                     scores |-> <<>>,
                     aggregator |-> <<>>,
                     json_written |-> FALSE,
                     json |-> <<>>,
                     logged |-> FALSE]
    /\ UNCHANGED <<corpus, files, ret, envsteps, ckpts, bot, procs>>

\* one turn of the loop over get_input_data (w = 1): generate, score,
\* write the block and the separator, flush
EvalBatch ==
    /\ evalst.pc = "loop"
    /\ evalst.left < Len(evalst.list_data_dict)
    /\ \E completion \in Completions :
          LET i == evalst.left + 1
              old == evalst.list_data_dict[i]
              score == Score(old.summary, completion)
              sample == [summary |-> old.summary, completion |-> completion,
                         score |-> score]
          IN evalst' = [evalst EXCEPT
                          !.list_data_dict[i] = sample,
                          !.results_display =
                              @ \o <<DisplayBlock(sample), Separator>>,
                          !.scores = Append(@, score),
                          !.aggregator = Append(@, score),
                          !.left = i]
    /\ UNCHANGED <<corpus, files, ret, envsteps, ckpts, bot, procs>>

\* an exception in fschatbot.generate or in scorer.score for the batch at
\* hand: control goes to the except clause, which prints the error; main
\* then returns
EvalBatchRaises ==
    /\ evalst.pc = "loop"
    /\ evalst.left < Len(evalst.list_data_dict)
    /\ \E where \in {"generate", "score"}, completion \in Completions :
          LET i == evalst.left + 1
              old == evalst.list_data_dict[i]
          IN evalst' = [evalst EXCEPT
                          !.list_data_dict[i] =
                              IF where = "generate" THEN old
                              ELSE [summary |-> old.summary, completion |-> completion],
                          !.logged = TRUE,
                          !.pc = "returned"]
    /\ UNCHANGED <<corpus, files, ret, envsteps, ckpts, bot, procs>>

\* after the loop: json.dump of list_data_dict to summarization.json, the
\* aggregate written to results_display; main returns
EvalFinish ==
    /\ evalst.pc = "loop"
    /\ evalst.left = Len(evalst.list_data_dict)
    /\ evalst' = [evalst EXCEPT
                    !.json_written = TRUE,
                    !.json = evalst.list_data_dict,
                    !.results_display = Append(@, <<"aggregate", evalst.aggregator>>),
                    !.pc = "returned"]
    /\ UNCHANGED <<corpus, files, ret, envsteps, ckpts, bot, procs>>

InitEval ==
    /\ corpus = CorpusEarly
    /\ files = EmptyRoot
    /\ ret = NoCall
    /\ envsteps = 0
    /\ evalst = EvalIdle
    /\ ckpts = {}
    /\ bot = NoBot
    /\ procs = NoProcs

NextEval ==
    \/ EvalStart
    \/ EvalBatch
    \/ EvalBatchRaises
    \/ EvalFinish

SpecEval == InitEval /\ [][NextEval]_vars

\* C10 as stated: when a batch raises, main returns normally having
\* written the blocks of the items scored so far, the results file
\* summarization.json and the aggregate over the items scored so far.
C10_PartialOutput ==
    (evalst.pc = "returned" /\ evalst.logged) =>
        /\ \A i \in 1..evalst.left :
              evalst.results_display[2 * i - 1]
                  = DisplayBlock(evalst.list_data_dict[i])
        /\ evalst.json_written
        /\ \E k \in 1..Len(evalst.results_display) :
              evalst.results_display[k] = <<"aggregate", evalst.scores>>

----------------------------------------------------------------------------
(* The chat/eval model wrapper FSChatBot (federatedscope/llm/misc/fschat.py) *)
(* A checkpoint is a file {prefix}{basename} of the directory of            *)
(* config.federate.save_to; ckpts is the set of file names that exist.      *)

MaxRounds == 2         \* config.federate.total_round_num ranges over 0..MaxRounds
MaxFreq == 2           \* config.federate.save_freq ranges over 1..MaxFreq

Filename == "ckpt"

Configs == [total_round_num : 0..MaxRounds, save_freq : 1..MaxFreq]

RoundPrefix(r) == ToString(r) \o "_"

\* every name a checkpoint of some round may have, candidates of the
\* configuration or not
CkptNames ==
    {"final_" \o Filename, Filename}
        \cup {RoundPrefix(r) \o Filename : r \in 0..MaxRounds}

\* range(num_ckpt, -1, -1)
RangeDown(num_ckpt) == [k \in 1..(num_ckpt + 1) |-> num_ckpt + 1 - k]

\* the rounds in ascending order: range(0, num_ckpt + 1)
PrefixListAscending(config) ==
    LET num_ckpt == config.total_round_num \div config.save_freq
    IN  <<"final_">>
            \o [k \in 1..(num_ckpt + 1) |-> RoundPrefix((k - 1) * config.save_freq)]
            \o <<"">>

PrefixList(config) ==
    LET num_ckpt == config.total_round_num \div config.save_freq
        rounds == RangeDown(num_ckpt)
    IN  <<"final_">>
            \o [k \in 1..Len(rounds) |-> RoundPrefix(rounds[k] * config.save_freq)]
            \o <<"">>

PathExists(disk, name) == name \in disk

\* for pre in self.prefix: if os.path.exists(...): self.curpfx = pre; break
\* None is <<>>, a prefix pre is <<pre>>
RECURSIVE Probe(_, _, _)
Probe(prefix, disk, i) ==
    IF i > Len(prefix) THEN <<>>
    ELSE IF PathExists(disk, prefix[i] \o Filename) THEN <<prefix[i]>>
    ELSE Probe(prefix, disk, i + 1)

\* an index that consumes nothing of the list
IndexZero(list, x) == 0

\* list.index(x), counted from 1
Index(list, x) == CHOOSE i \in 1..Len(list) : list[i] = x /\ \A j \in 1..(i - 1) : list[j] # x

RawModel == [from |-> "raw", path |-> ""]

\* elif len(self.prefix) > 1
HasFallback(prefix) == Len(prefix) > 1

\* next_model on the attributes self, with the directory disk; the result
\* holds the attributes after the call and whether the call raised
NextModel(self, disk) ==
    LET curpfx == Probe(self.prefix, disk, 1)
    IN  IF curpfx # <<>>
        THEN [raised |-> "",
              self |-> [prefix |-> SubSeq(self.prefix,
                                          Index(self.prefix, curpfx[1]) + 1,
                                          Len(self.prefix)),
                        curpfx |-> curpfx,
                        model |-> [from |-> "ckpt", path |-> curpfx[1] \o Filename],
                        history |-> <<>>]]
        ELSE IF HasFallback(self.prefix)
        THEN [raised |-> "",
              self |-> [prefix |-> <<>>,
                        curpfx |-> <<>>,
                        model |-> RawModel,
                        history |-> <<>>]]
        ELSE [raised |-> "ValueError",
              self |-> [prefix |-> self.prefix,
                        curpfx |-> <<>>,
                        model |-> RawModel,
                        history |-> self.history]]

\* use_raw_model: self.device is a string, so self.device + 1 raises
\* before max_history_len, max_len and history are set
UseRawModel(self) ==
    [raised |-> "TypeError",
     self |-> [self EXCEPT !.model = RawModel]]

\* FSChatBot.__init__
NewBot(config, use_raw, disk) ==
    LET self == [prefix |-> PrefixList(config), curpfx |-> <<>>,
                 model |-> RawModel, history |-> <<>>]
    IN  IF use_raw THEN UseRawModel(self) ELSE NextModel(self, disk)

\* bot.state is "ready" when the constructor returned and "failed" when it
\* raised; last is the outcome of the last call ("" when it returned);
\* calls, selected, candidates and raised_before record the calls made
Construct ==
    \E config \in Configs, use_raw \in BOOLEAN :
        /\ bot = NoBot
        /\ \E r \in {NewBot(config, use_raw, ckpts)} :
              bot' = [state |-> IF r.raised = "" THEN "ready" ELSE "failed",
                      config |-> config,
                      use_raw |-> use_raw,
                      self |-> r.self,
                      last |-> r.raised,
                      calls |-> IF use_raw THEN 0 ELSE 1,
                      candidates |-> PrefixList(config),
                      selected |-> r.self.curpfx,
                      raised_before |-> FALSE]
        /\ UNCHANGED <<corpus, files, ret, envsteps, evalst, ckpts, procs>>

CallNextModel ==
    /\ bot.state = "ready"
    /\ bot.calls < Len(bot.candidates) + 2
    /\ \E r \in {NextModel(bot.self, ckpts)} :
          bot' = [bot EXCEPT !.self = r.self,
                             !.last = r.raised,
                             !.calls = @ + 1,
                             !.selected = @ \o r.self.curpfx,
                             !.raised_before = (@ \/ bot.last # "")]
    /\ UNCHANGED <<corpus, files, ret, envsteps, evalst, ckpts, procs>>

InitChat ==
    /\ corpus = CorpusEarly
    /\ files = EmptyRoot
    /\ ret = NoCall
    /\ envsteps = 0
    /\ evalst = EvalIdle
    /\ ckpts \in SUBSET CkptNames
    /\ bot = NoBot
    /\ procs = NoProcs

NextChat ==
    \/ Construct
    \/ CallNextModel

SpecChat == InitChat /\ [][NextChat]_vars

----------------------------------------------------------------------------
(* Properties of the checkpoint probing (SpecChat: the directory is fixed)  *)

\* the candidate order as the interface states it: "final_", then "{r}_"
\* for r = k * save_freq with k from total_round_num // save_freq down to
\* 0, then the empty prefix
NumCandidates(config) == (config.total_round_num \div config.save_freq) + 3

CandidateAt(config, i) ==
    LET n == NumCandidates(config)
    IN  IF i = 1 THEN "final_"
        ELSE IF i = n THEN ""
        ELSE RoundPrefix((n - 1 - i) * config.save_freq)

ExistingCandidates(config, disk) ==
    {i \in 1..NumCandidates(config) : (CandidateAt(config, i) \o Filename) \in disk}

\* the constructor ran next_model, and nothing was called since
Constructed == bot.state # "none" /\ ~bot.use_raw /\ bot.calls = 1

\* C11: at construction with use_raw false, the checkpoint loaded is the
\* first existing candidate in the order final_, {r}_ descending, empty
\* prefix: no earlier candidate exists on disk, and curpfx is the selected
\* prefix.
C11_FirstExistingCandidate ==
    (Constructed /\ ExistingCandidates(bot.config, ckpts) # {}) =>
        /\ bot.state = "ready"
        /\ \E i \in ExistingCandidates(bot.config, ckpts) :
              /\ \A j \in ExistingCandidates(bot.config, ckpts) : i <= j
              /\ bot.self.curpfx = <<CandidateAt(bot.config, i)>>
              /\ bot.self.model.from = "ckpt"
              /\ bot.self.model.path = CandidateAt(bot.config, i) \o Filename

\* a round checkpoint is selected although a checkpoint of a later position
\* (the empty prefix) and a non-candidate round file exist
C11_Witness ==
    /\ Constructed
    /\ bot.config = [total_round_num |-> 2, save_freq |-> 2]
    /\ ckpts = {RoundPrefix(0) \o Filename, RoundPrefix(1) \o Filename, Filename}
    /\ bot.self.curpfx = <<RoundPrefix(0)>>

\* C12 as stated: when no candidate exists, the construction fails with
\* an error and no chatbot is produced.
C12_FailsWithoutCheckpoint ==
    (Constructed /\ ExistingCandidates(bot.config, ckpts) = {}) =>
        (bot.state = "failed" /\ bot.last # "")

\* What next_model does instead (lines 109-117): when no candidate exists,
\* the construction returns a chatbot that holds the raw model, with curpfx
\* None and an empty candidate list; the error is raised by the next call.
RawFallbackStep ==
    /\ (Constructed' /\ ExistingCandidates(bot'.config, ckpts') = {}) =>
          /\ bot'.state = "ready"
          /\ bot'.last = ""
          /\ bot'.self.model = [from |-> "raw", path |-> ""]
          /\ bot'.self.curpfx = <<>>
          /\ bot'.self.prefix = <<>>
    /\ (Constructed /\ ExistingCandidates(bot.config, ckpts) = {} /\ bot' # bot) =>
          bot'.last = "ValueError"

RawModelFallback == [][RawFallbackStep]_vars

RawFallbackReached ==
    /\ bot.state = "ready"
    /\ bot.calls = 2
    /\ ExistingCandidates(bot.config, ckpts) = {}
    /\ ckpts # {}
    /\ bot.last = "ValueError"

IsSuffix(s, t) ==
    Len(s) <= Len(t) /\ s = SubSeq(t, Len(t) - Len(s) + 1, Len(t))

PositionOf(pre, candidates) ==
    CHOOSE i \in 1..Len(candidates) : candidates[i] = pre

\* C13: over the calls of next_model with the directory fixed, the
\* remaining list only shrinks to a suffix of itself; every call that loads
\* a checkpoint selects a prefix later in candidate order than each one
\* selected before; a call raises within (number of candidates + 1) calls;
\* and after a call raised, every later call raises.
C13_Step ==
    (bot.state = "ready" /\ bot' # bot) =>
        /\ IsSuffix(bot'.self.prefix, bot.self.prefix)
        /\ \A k \in 1..(Len(bot'.selected) - 1) :
              PositionOf(bot'.selected[k], bot'.candidates)
                  < PositionOf(bot'.selected[k + 1], bot'.candidates)
        /\ bot'.self.curpfx # <<>> =>
              /\ bot'.selected = bot.selected \o bot'.self.curpfx
              /\ bot'.self.model.path = bot'.self.curpfx[1] \o Filename
        /\ bot'.self.curpfx = <<>> => bot'.selected = bot.selected
        /\ (bot'.calls >= Len(bot'.candidates) + 1) =>
              (bot'.last = "ValueError" \/ bot'.raised_before)
        /\ (bot.last # "" \/ bot.raised_before) => bot'.last = "ValueError"

C13_ProbingConsumesCandidates == [][C13_Step]_vars

\* two checkpoints were loaded in turn, then the raw model, then a call
\* raised and the call after it raised again
C13_Witness ==
    /\ bot.state = "ready"
    /\ Len(bot.selected) = 2
    /\ bot.calls = 5
    /\ bot.raised_before
    /\ bot.last = "ValueError"

----------------------------------------------------------------------------
(* The JSONL loaders step by step.  A process runs _download_shp_cmpr or     *)
(* _download_shp one statement at a time: the existence test, then either    *)
(* one load_jsonl per file or, per file in the order of tag_fp, open(fp,     *)
(* 'w'), one file.write per record and file.close().  While a file is open   *)
(* for writing, what was written may still be in the writer's buffer: a      *)
(* reader, or the disk after the writer was killed, holds a prefix of it,    *)
(* which may end inside a line.                                              *)

MaxRuns == 2           \* calls of a loader made by one process
MaxProcs == 2          \* processes that share the data root

Loaders == {"cmpr", "rlhf"}

\* the test file first
TagOrderReversed == <<"test", "validation", "train">>

\* tag_fp.items(): the insertion order of the dict
TagOrder == <<"train", "validation", "test">>

FilesOf(loader) == IF loader = "cmpr" THEN CmprFiles ELSE RlhfFiles
KeysOf(loader) == IF loader = "cmpr" THEN CmprKeys ELSE RlhfKeys
FetchOf(loader, dataset) ==
    IF loader = "cmpr" THEN CmprFetch(dataset) ELSE RlhfFetch(dataset)
LinesOf(loader, lists) ==
    IF loader = "cmpr" THEN CmprLines(lists) ELSE RlhfLines(lists)

NoLists == [t \in Tags |-> <<>>]

\* a line cut before its end, and the bytes of a hole left by a write
\* beyond the end of a file: neither is a JSON document
Torn(line) == SubSeq(line, 1, Len(line) - 1)
Hole == <<>>

WellFormed(line, keys) ==
    \A i \in 1..Len(keys) : \E j \in 1..Len(line) : line[j][1] = keys[i]

\* load_jsonl on a file that may hold a cut line: json.loads raises on it
LoadJsonlOrRaise(lines, keys) ==
    IF \A i \in 1..Len(lines) : WellFormed(lines[i], keys)
    THEN [status |-> "ok", list |-> LoadJsonl(lines, Range(keys))]
    ELSE [status |-> "JSONDecodeError", list |-> <<>>]

\* what of the written lines a file holds for anyone but its writer
Views(data) ==
    {SubSeq(data, 1, k) : k \in 0..Len(data)}
        \cup {SubSeq(data, 1, k) \o <<Torn(data[k + 1])>> :
                k \in {j \in 0..(Len(data) - 1) : data[j + 1] # Hole}}

\* file.write at the writer's own offset (the line number pos)
WriteAt(data, pos, line) ==
    [i \in 1..(IF pos > Len(data) THEN pos ELSE Len(data)) |->
        IF i = pos THEN line
        ELSE IF i <= Len(data) THEN data[i]
        ELSE Hole]

\* the file the process p writes: the one of its current tag
CurrentFile(pr) == FilesOf(pr.loader)[TagOrder[pr.i]]

OpenBy(ps, f) == {q \in DOMAIN ps : ps[q].pc = "write" /\ CurrentFile(ps[q]) = f}

LoaderFiles(fs, loader) == [t \in Tags |-> fs[FilesOf(loader)[t]]]

IdleProc ==
    [pc |-> "idle", loader |-> "cmpr", i |-> 1, pos |-> 0,
     lists |-> NoLists, out |-> NoLists, branch |-> "", status |-> "",
     runs |-> 0,
     job |-> "jsonl",         \* what the process calls: the JSONL loaders, or
                              \* "pickle": load_comparison_dataset
     num_clients |-> 1, max_num_test |-> 0,
     built |-> [t \in Tags |-> EmptyCmp],
     \* records of what happened, for the properties
     missing |-> {},          \* the tags whose file was missing at the existence test
     killed |-> FALSE,        \* the run before this one was killed ...
     opened |-> 0,            \* ... after it had opened this many files,
     was_missing |-> {},      \* ... having found these tags' files missing,
     disk |-> LoaderFiles(EmptyRoot, "cmpr"),   \* ... and leaving these files
     read_open |-> FALSE,     \* the cached branch read a file another process had open
     shared_open |-> FALSE]   \* it opened a file another process had open

\* the call starts: the existence test, and load_dataset on a miss
ProcStart(p) ==
    \E loader \in Loaders :
        /\ procs[p].pc \in {"idle", "done", "killed"}
        /\ procs[p].job = "jsonl"
        /\ procs[p].runs < MaxRuns
        /\ procs' = [procs EXCEPT ![p] =
              [@ EXCEPT !.loader = loader, !.i = 1, !.pos = 0,
                        !.runs = @ + 1, !.status = "", !.out = NoLists,
                        !.killed = (procs[p].pc = "killed" /\ procs[p].loader = loader),
                        !.read_open = FALSE,
                        !.missing = {t \in Tags : ~files[FilesOf(loader)[t]].exists},
                        !.pc = IF AllExist(files, FilesOf(loader))
                               THEN "load" ELSE "open",
                        !.branch = IF AllExist(files, FilesOf(loader))
                                   THEN "cached" ELSE "fetch",
                        !.lists = IF AllExist(files, FilesOf(loader))
                                  THEN NoLists ELSE FetchOf(loader, corpus)]]
        /\ UNCHANGED <<corpus, files, ret, envsteps, evalst, ckpts, bot>>

\* load_jsonl of the file of the current tag
ProcLoad(p) ==
    LET pr == procs[p]
        f == CurrentFile(pr)
        others == OpenBy(procs, f) \ {p}
    IN  /\ pr.pc = "load"
        /\ \E view \in (IF others # {} THEN Views(files[f].data) ELSE {files[f].data}) :
             \E r \in {LoadJsonlOrRaise(view, KeysOf(pr.loader))} :
                procs' = [procs EXCEPT ![p] =
                    IF r.status # "ok"
                    THEN [@ EXCEPT !.pc = "done", !.status = r.status,
                                   !.read_open = (@ \/ others # {})]
                    ELSE [@ EXCEPT !.out = [@ EXCEPT ![TagOrder[pr.i]] = r.list],
                                   !.read_open = (@ \/ others # {}),
                                   !.i = IF pr.i < Len(TagOrder) THEN pr.i + 1 ELSE pr.i,
                                   !.pc = IF pr.i < Len(TagOrder) THEN "load" ELSE "done",
                                   !.status = IF pr.i < Len(TagOrder) THEN "" ELSE "ok"]]
        /\ UNCHANGED <<corpus, files, ret, envsteps, evalst, ckpts, bot>>

\* file = open(fp, 'w'): the file is created, or cut to nothing
ProcOpen(p) ==
    LET pr == procs[p]
        f == CurrentFile(pr)
    IN  /\ pr.pc = "open"
        /\ files' = [files EXCEPT ![f] = Present(<<>>)]
        /\ procs' = [procs EXCEPT ![p] =
              [@ EXCEPT !.pc = "write", !.pos = 0,
                        !.shared_open = (@ \/ (OpenBy(procs, f) \ {p}) # {})]]
        /\ UNCHANGED <<corpus, ret, envsteps, evalst, ckpts, bot>>

\* file.write(f'{json.dumps(record)}\n'); list_data_dict.append(record)
ProcWrite(p) ==
    LET pr == procs[p]
        f == CurrentFile(pr)
        tag == TagOrder[pr.i]
    IN  /\ pr.pc = "write"
        /\ pr.pos < Len(pr.lists[tag])
        /\ files' = [files EXCEPT ![f] =
              Present(WriteAt(files[f].data, pr.pos + 1,
                              LinesOf(pr.loader, pr.lists)[tag][pr.pos + 1]))]
        /\ procs' = [procs EXCEPT ![p] =
              [@ EXCEPT !.pos = @ + 1,
                        !.out = [@ EXCEPT ![tag] = Append(@, pr.lists[tag][pr.pos + 1])]]]
        /\ UNCHANGED <<corpus, ret, envsteps, evalst, ckpts, bot>>

\* file.close(), and the return after the last file
ProcClose(p) ==
    LET pr == procs[p]
    IN  /\ pr.pc = "write"
        /\ pr.pos = Len(pr.lists[TagOrder[pr.i]])
        /\ procs' = [procs EXCEPT ![p] =
              IF pr.i < Len(TagOrder)
              THEN [@ EXCEPT !.pc = "open", !.i = @ + 1, !.pos = 0]
              ELSE [@ EXCEPT !.pc = "done", !.status = "ok"]]
        /\ UNCHANGED <<corpus, files, ret, envsteps, evalst, ckpts, bot>>

\* the run is interrupted in the not-yet-cached branch: the process is
\* gone, and the file it had open holds what had reached the disk
Interrupt(p) ==
    LET pr == procs[p]
        f == CurrentFile(pr)
    IN  /\ pr.pc \in {"open", "write"}
        /\ \E view \in (IF pr.pc = "write" THEN Views(files[f].data)
                        ELSE {files[f].data}) :
             /\ files' = [files EXCEPT ![f] =
                            IF pr.pc = "write" THEN Present(view) ELSE @]
             /\ procs' = [procs EXCEPT ![p] =
                   [@ EXCEPT !.pc = "killed", !.status = "",
                             !.opened = IF pr.pc = "write" THEN pr.i ELSE pr.i - 1,
                             !.was_missing = pr.missing,
                             !.disk = LoaderFiles(files', pr.loader)]]
        /\ UNCHANGED <<corpus, ret, envsteps, evalst, ckpts, bot>>

----------------------------------------------------------------------------
(* load_comparison_dataset step by step: the existence test, then either    *)
(* the three pickle.load, or the build (shp_dataset and the tokenization,   *)
(* one step), the three open(fp, 'wb') of the with statement, the three     *)
(* pickle.dump, and the exit of the with statement with the shrink.         *)

Resting(pr) == pr.pc \in {"idle", "done", "killed"}

NamesOf(pr) ==
    IF pr.loader = "cmp" THEN CmpPickles(pr.num_clients) ELSE FilesOf(pr.loader)

\* the pickles a process has open for writing
PickleOpenBy(ps, f) ==
    {q \in DOMAIN ps :
        /\ ps[q].loader = "cmp"
        /\ \/ ps[q].pc = "popen"
              /\ \E j \in 1..(ps[q].i - 1) : NamesOf(ps[q])[TagOrder[j]] = f
           \/ ps[q].pc \in {"pdump", "pclose"}
              /\ \E t \in Tags : NamesOf(ps[q])[t] = f}

\* pickle.load of a file: one that a writer has open may still be empty
\* (EOFError) or hold a part of the pickle (UnpicklingError)
PickleLoads(fs, f, open_by_other) ==
    IF ~open_by_other THEN {[status |-> "ok", data |-> fs[f].data]}
    ELSE {[status |-> "EOFError", data |-> EmptyCmp]}
            \cup (IF fs[f].data = EmptyCmp THEN {}
                  ELSE {[status |-> "UnpicklingError", data |-> EmptyCmp],
                        [status |-> "ok", data |-> fs[f].data]})

PklStart(p) ==
    \E num_clients \in NumClients, max_num_test \in MaxNumTests :
        /\ Resting(procs[p])
        /\ procs[p].job = "pickle"
        /\ procs[p].runs < MaxRuns
        /\ procs' = [procs EXCEPT ![p] =
              [@ EXCEPT !.loader = "cmp", !.i = 1, !.runs = @ + 1,
                        !.num_clients = num_clients,
                        !.max_num_test = max_num_test,
                        !.status = "", !.read_open = FALSE,
                        !.built = [t \in Tags |-> EmptyCmp],
                        !.pc = IF AllExist(files, CmpPickles(num_clients))
                               THEN "pload" ELSE "build",
                        !.branch = IF AllExist(files, CmpPickles(num_clients))
                                   THEN "cached" ELSE "fetch"]]
        /\ UNCHANGED <<corpus, files, ret, envsteps, evalst, ckpts, bot>>

\* pickle.load of the file of the current tag; after the third, the shrink
\* and the return
PklLoad(p) ==
    LET pr == procs[p]
        f == NamesOf(pr)[TagOrder[pr.i]]
        others == PickleOpenBy(procs, f) \ {p}
    IN  /\ pr.pc = "pload"
        /\ \E r \in PickleLoads(files, f, others # {}) :
              procs' = [procs EXCEPT ![p] =
                  IF r.status # "ok"
                  THEN [@ EXCEPT !.pc = "done", !.status = r.status,
                                 !.read_open = TRUE]
                  ELSE [@ EXCEPT !.built =
                                    [@ EXCEPT ![TagOrder[pr.i]] =
                                        IF pr.i = 1 THEN r.data
                                        ELSE ShrinkCmp(r.data, pr.max_num_test)],
                                 !.read_open = (@ \/ others # {}),
                                 !.i = IF pr.i < Len(TagOrder) THEN pr.i + 1 ELSE pr.i,
                                 !.pc = IF pr.i < Len(TagOrder) THEN "pload" ELSE "done",
                                 !.status = IF pr.i < Len(TagOrder) THEN "" ELSE "ok"]]
        /\ UNCHANGED <<corpus, files, ret, envsteps, evalst, ckpts, bot>>

\* shp_dataset and the three LLMComparisonDataset
PklBuild(p) ==
    LET pr == procs[p]
    IN  /\ pr.pc = "build"
        /\ \E assign \in [KnownInstructions(files, corpus) -> 0..(pr.num_clients - 1)] :
             \E shp \in {ShpDataset(files, corpus, pr.num_clients, assign)} :
                /\ files' = shp.files
                /\ procs' = [procs EXCEPT ![p] =
                      IF shp.status # "ok"
                      THEN [@ EXCEPT !.pc = "done", !.status = shp.status]
                      ELSE [@ EXCEPT !.pc = "popen", !.i = 1,
                                     !.built = [t \in Tags |->
                                                  LLMComparisonDataset(shp.lists[t])]]]
        /\ UNCHANGED <<corpus, ret, envsteps, evalst, ckpts, bot>>

\* open(fp, 'wb') of the current tag: the file is created, or cut to nothing
PklOpen(p) ==
    LET pr == procs[p]
        f == NamesOf(pr)[TagOrder[pr.i]]
    IN  /\ pr.pc = "popen"
        /\ files' = [files EXCEPT ![f] = Present(EmptyCmp)]
        /\ procs' = [procs EXCEPT ![p] =
              [@ EXCEPT !.i = IF pr.i < Len(TagOrder) THEN pr.i + 1 ELSE 1,
                        !.pc = IF pr.i < Len(TagOrder) THEN "popen" ELSE "pdump",
                        !.shared_open = (@ \/ (PickleOpenBy(procs, f) \ {p}) # {})]]
        /\ UNCHANGED <<corpus, ret, envsteps, evalst, ckpts, bot>>

\* pickle.dump of the dataset of the current tag
PklDump(p) ==
    LET pr == procs[p]
        f == NamesOf(pr)[TagOrder[pr.i]]
    IN  /\ pr.pc = "pdump"
        /\ files' = [files EXCEPT ![f] = Present(pr.built[TagOrder[pr.i]])]
        /\ procs' = [procs EXCEPT ![p] =
              [@ EXCEPT !.i = IF pr.i < Len(TagOrder) THEN pr.i + 1 ELSE pr.i,
                        !.pc = IF pr.i < Len(TagOrder) THEN "pdump" ELSE "pclose"]]
        /\ UNCHANGED <<corpus, ret, envsteps, evalst, ckpts, bot>>

\* the with statement is left (the three files are closed), the validation
\* and test sets are shrunk and the datasets returned
PklClose(p) ==
    LET pr == procs[p]
    IN  /\ pr.pc = "pclose"
        /\ procs' = [procs EXCEPT ![p] =
              [@ EXCEPT !.pc = "done", !.status = "ok",
                        !.built = [t \in Tags |->
                                     IF t = "train" THEN pr.built[t]
                                     ELSE ShrinkCmp(pr.built[t], pr.max_num_test)]]]
        /\ UNCHANGED <<corpus, files, ret, envsteps, evalst, ckpts, bot>>

\* a data root left by a complete run of both loaders on the corpus
\* dataset, of which only the files of the tags in kept were not deleted
RootWith(kept, dataset) ==
    [f \in FileNames |->
        IF \E t \in kept : f = CmprFiles[t]
        THEN Present(CmprLines(CmprFetch(dataset))[CHOOSE t \in kept : f = CmprFiles[t]])
        ELSE IF \E t \in kept : f = RlhfFiles[t]
        THEN Present(RlhfLines(RlhfFetch(dataset))[CHOOSE t \in kept : f = RlhfFiles[t]])
        ELSE Absent(f)]

InitCrash ==
    /\ corpus = CorpusEarly
    /\ files \in {RootWith(kept, corpus) : kept \in SUBSET Tags}
    /\ ret = NoCall
    /\ envsteps = 0
    /\ evalst = EvalIdle
    /\ ckpts = {}
    /\ bot = NoBot
    /\ procs = [p \in {1} |-> IdleProc]

NextCrash ==
    \/ \E p \in DOMAIN procs : ProcStart(p)
    \/ \E p \in DOMAIN procs : ProcLoad(p)
    \/ \E p \in DOMAIN procs : ProcOpen(p)
    \/ \E p \in DOMAIN procs : ProcWrite(p)
    \/ \E p \in DOMAIN procs : ProcClose(p)
    \/ \E p \in DOMAIN procs : Interrupt(p)

SpecCrash == InitCrash /\ [][NextCrash]_vars

----------------------------------------------------------------------------
(* Properties of an interrupted cache write (SpecCrash)                     *)

\* the run that follows a run interrupted after the writing of the cache
\* had begun (a file was opened) has returned or raised
AfterInterrupt(pr) == pr.pc = "done" /\ pr.killed /\ pr.opened >= 1

\* the files the interrupted run had opened, in the order train,
\* validation, test
OpenedTags(n) ==
    CASE n = 0 -> {}
      [] n = 1 -> {"train"}
      [] n = 2 -> {"train", "validation"}
      [] n >= 3 -> {"train", "validation", "test"}

\* C14 as stated: at whichever point of the writing the run was
\* interrupted, the next run takes the cached branch, does not fetch or
\* write, and returns the records of the truncated files.
C14_AlwaysTrusted ==
    \A p \in DOMAIN procs :
        AfterInterrupt(procs[p]) =>
            /\ procs[p].branch = "cached"
            /\ LoaderFiles(files, procs[p].loader) = procs[p].disk

\* C14, amended: the truncated cache is trusted by the next run exactly
\* when every file that was missing had been opened before the
\* interruption (from an empty cache: when the test file, the last one,
\* was open); the next run then leaves the files as they are and returns
\* their records, or raises on a line cut inside.  Otherwise a file is
\* still missing and the next run fetches the corpus and rewrites the
\* three files in full.
C14_TrustedWhenAllExist ==
    \A p \in DOMAIN procs :
        LET pr == procs[p]
            keys == KeysOf(pr.loader)
        IN AfterInterrupt(pr) =>
            IF pr.was_missing \subseteq OpenedTags(pr.opened)
            THEN /\ pr.branch = "cached"
                 /\ LoaderFiles(files, pr.loader) = pr.disk
                 /\ \/ /\ pr.status = "ok"
                       /\ \A t \in Tags :
                             pr.out[t] = LoadJsonl(pr.disk[t].data, Range(keys))
                    \/ /\ pr.status = "JSONDecodeError"
                       /\ \E t \in Tags : \E i \in 1..Len(pr.disk[t].data) :
                             ~WellFormed(pr.disk[t].data[i], keys)
            ELSE /\ pr.branch = "fetch"
                 /\ pr.status = "ok"
                 /\ pr.out = FetchOf(pr.loader, corpus)
                 /\ \A t \in Tags :
                       files[FilesOf(pr.loader)[t]]
                           = Present(LinesOf(pr.loader, pr.out)[t])

\* from an empty cache, the run was interrupted while it wrote the test
\* file; the next run returned a test list that lacks records
C14_Witness ==
    \E p \in DOMAIN procs :
        /\ AfterInterrupt(procs[p])
        /\ procs[p].was_missing = Tags
        /\ procs[p].branch = "cached"
        /\ procs[p].status = "ok"
        /\ Len(procs[p].out.test) < Len(FetchOf(procs[p].loader, corpus).test)
        /\ procs[p].out.train = FetchOf(procs[p].loader, corpus).train

----------------------------------------------------------------------------
(* Parallel workers on one data root (SpecRace)                             *)

InitRace ==
    /\ corpus = CorpusEarly
    /\ files = EmptyRoot
    /\ ret = NoCall
    /\ envsteps = 0
    /\ evalst = EvalIdle
    /\ ckpts = {}
    /\ bot = NoBot
    /\ \E job \in {"jsonl", "pickle"} :
          procs = [p \in 1..MaxProcs |-> [IdleProc EXCEPT !.job = job]]

NextRace ==
    \/ \E p \in DOMAIN procs : ProcStart(p)
    \/ \E p \in DOMAIN procs : ProcLoad(p)
    \/ \E p \in DOMAIN procs : ProcOpen(p)
    \/ \E p \in DOMAIN procs : ProcWrite(p)
    \/ \E p \in DOMAIN procs : ProcClose(p)
    \/ \E p \in DOMAIN procs : PklStart(p)
    \/ \E p \in DOMAIN procs : PklLoad(p)
    \/ \E p \in DOMAIN procs : PklBuild(p)
    \/ \E p \in DOMAIN procs : PklOpen(p)
    \/ \E p \in DOMAIN procs : PklDump(p)
    \/ \E p \in DOMAIN procs : PklClose(p)

SpecRace == InitRace /\ [][NextRace]_vars

\* C15: the check-exists-else-write pattern has no guard against a parallel
\* worker.  The branch of a call is decided by the existence of the three
\* files alone, a file another process has open for writing counts as
\* existing and is read as it is, and a process in the miss branch opens
\* and writes its file whatever the other process does; so one process
\* reads in the cached branch a file the other has not finished, and two
\* processes in the miss branch write the same file.
C15_Step ==
    \A p \in DOMAIN procs :
        /\ (Resting(procs[p]) /\ ~Resting(procs'[p])) =>
              (procs'[p].branch = "cached"
                  <=> \A t \in Tags : files[NamesOf(procs'[p])[t]].exists)
        /\ procs[p].pc = "open" => ENABLED ProcOpen(p)
        /\ procs[p].pc = "load" => ENABLED ProcLoad(p)
        /\ procs[p].pc = "write" => ENABLED (ProcWrite(p) \/ ProcClose(p))
        /\ procs[p].pc = "pload" => ENABLED PklLoad(p)
        /\ procs[p].pc = "popen" => ENABLED PklOpen(p)
        /\ procs[p].pc = "pdump" => ENABLED PklDump(p)

C15_NoGuard == [][C15_Step]_vars

\* load_comparison_dataset, both interleavings in one behaviour: q opened
\* a pickle that the other process had open (both in the miss branch), and
\* p, in the cache-hit branch, read a pickle the other had created and not
\* finished, and raised
C15_Witness ==
    \E p, q \in DOMAIN procs :
        /\ procs[q].shared_open
        /\ procs[p].loader = "cmp"
        /\ procs[p].pc = "done"
        /\ procs[p].branch = "cached"
        /\ procs[p].read_open
        /\ procs[p].status = "EOFError"

\* the JSONL loaders, both interleavings in one behaviour: q opened a file
\* that the other process had open, and p, in the cached branch, read a
\* file the other was still writing and returned fewer test records than
\* the corpus holds, with no error
JsonlRaceReached ==
    \E p, q \in DOMAIN procs :
        /\ procs[q].shared_open
        /\ procs[p].loader # "cmp"
        /\ procs[p].pc = "done"
        /\ procs[p].branch = "cached"
        /\ procs[p].read_open
        /\ procs[p].status = "ok"
        /\ Len(procs[p].out.test) < Len(FetchOf(procs[p].loader, corpus).test)

----------------------------------------------------------------------------
(* load_rlhf_dataset: the deduplicated splits relabelled for RLHF           *)

MaxRlhfTestRows == 4   \* rows of the test split of the corpora of SpecRlhf

\* the larger half of a list
HalfUp(n) == (n + 1) \div 2

\* len(list_test_dict) // 2
Half(n) == n \div 2

\* list[:n]
SliceTo(list, n) == Take(list, n)

\* list[n:]
SliceFrom(list, n) == SubSeq(list, n + 1, Len(list))

\* the returned lists and the data root afterwards; max_num_test is -1
\* when the caller leaves it out
LoadRlhfDataset(fs, dataset, max_num_test) ==
    LET r == DownloadShp(fs, dataset)
        list_train_dict == r.lists.validation \o r.lists.test
        list_val_dict == SliceTo(r.lists.test, Half(Len(r.lists.test)))
        list_test_dict == SliceFrom(r.lists.test, Half(Len(r.lists.test)))
    IN [files |-> r.files,
        ret |-> [fn |-> "load_rlhf_dataset",
                 max_num_test |-> max_num_test,
                 branch |-> IF r.fetched THEN "fetch" ELSE "cached",
                 train |-> list_train_dict,
                 val |-> IF max_num_test > 0
                         THEN SliceTo(list_val_dict, max_num_test)
                         ELSE list_val_dict,
                 test |-> IF max_num_test > 0
                          THEN SliceTo(list_test_dict, max_num_test)
                          ELSE list_test_dict]]

CallLoadRlhfDataset ==
    \E max_num_test \in {-1} \cup MaxNumTests :
        \E r \in {LoadRlhfDataset(files, corpus, max_num_test)} :
           /\ files' = r.files
           /\ ret' = r.ret
           /\ UNCHANGED <<corpus, envsteps, evalst, ckpts, bot, procs>>

\* SpecRlhf: a training row, validation of up to two rows and every test
\* split of up to MaxRlhfTestRows rows over four posts, one of which the
\* validation split may hold too
RlhfRow(h) == Row(h, "b", "c", 0, DomainA)
RlhfCorpora ==
    [train : SeqsUpTo({RlhfRow("q1")}, 1),
     validation : {<<>>, <<RlhfRow("q1")>>, <<RlhfRow("q2")>>,
                   <<RlhfRow("q1"), RlhfRow("q2")>>},
     test : SeqsUpTo({RlhfRow(h) : h \in {"q2", "q3", "q4", "q5"}}, MaxRlhfTestRows)]

InitRlhf ==
    /\ corpus \in RlhfCorpora
    /\ files = EmptyRoot
    /\ ret = NoCall
    /\ envsteps = 0
    /\ evalst = EvalIdle
    /\ ckpts = {}
    /\ bot = NoBot
    /\ procs = NoProcs

NextRlhf == CallLoadRlhfDataset

SpecRlhf == InitRlhf /\ [][NextRlhf]_vars

Occurs(x, list) == \E i \in 1..Len(list) : list[i] = x

\* C16: load_rlhf_dataset returns as train the deduplicated validation list
\* followed by the whole deduplicated test list (the deduplicated train
\* list is not used, train is never cut); val and test are the first
\* floor(len/2) and the remaining records of the deduplicated test list,
\* each cut to its first max_num_test records when max_num_test > 0, so
\* uncut they make up the deduplicated test list, and every val/test
\* record is in train too.
C16_RlhfRelabel ==
    ret.fn = "load_rlhf_dataset" =>
        LET dedup == RlhfFetch(corpus)
            n == Len(dedup.test)
            h == CHOOSE k \in 0..n : 2 * k <= n /\ n < 2 * k + 2
            m == ret.max_num_test
            nval == IF m > 0 /\ m < h THEN m ELSE h
            ntest == IF m > 0 /\ m < n - h THEN m ELSE n - h
        IN /\ Len(ret.train) = Len(dedup.validation) + n
           /\ \A i \in 1..Len(dedup.validation) : ret.train[i] = dedup.validation[i]
           /\ \A i \in 1..n : ret.train[Len(dedup.validation) + i] = dedup.test[i]
           /\ Len(ret.val) = nval
           /\ \A i \in 1..nval : ret.val[i] = dedup.test[i]
           /\ Len(ret.test) = ntest
           /\ \A i \in 1..ntest : ret.test[i] = dedup.test[h + i]
           /\ m <= 0 => ret.val \o ret.test = dedup.test
           /\ \A i \in 1..Len(ret.val) : Occurs(ret.val[i], ret.train)
           /\ \A i \in 1..Len(ret.test) : Occurs(ret.test[i], ret.train)

\* a deduplicated train list that is not returned, a validation list, a
\* test list of three records (one more dropped as a duplicate of the
\* validation list) and a cut that shortens test but not val
C16_Witness ==
    /\ ret.fn = "load_rlhf_dataset"
    /\ ret.max_num_test = 1
    /\ Len(RlhfFetch(corpus).train) = 1
    /\ Len(RlhfFetch(corpus).validation) = 1
    /\ Len(RlhfFetch(corpus).test) = 3
    /\ Len(corpus.test) = 4
    /\ Len(ret.train) = 4
    /\ Len(ret.val) = 1
    /\ Len(ret.test) = 1

====
